---- MODULE Spec2Model ----
(***************************************************************************)
(* Model of the EthixAI backend's request pipeline: the sliding-window     *)
(* RateLimiterMiddleware of app/auth.py as installed by create_app in      *)
(* app/main.py.                                                            *)
(*                                                                         *)
(* Time is counted in integer ticks of the monotonic clock; window_seconds *)
(* is a number of ticks.  Every request is one asyncio task running        *)
(* RateLimiterMiddleware.dispatch on the single event loop: "running" is   *)
(* the task that currently holds the loop (0 when the loop is free), and a *)
(* task gives the loop up only where its code awaits.                      *)
(***************************************************************************)
EXTENDS Integers, Sequences, FiniteSets

\* ------------------------------------------------------------------ bounds
NumRequests == 3
MaxTime == 3
MaxRequestsBound == 2
MaxWindow == 2

Requests == 1..NumRequests

\* ------------------------------------------------------------------- state
VARIABLES
    max_requests,     \* RateLimiterMiddleware.max_requests
    window_seconds,   \* RateLimiterMiddleware.window_seconds
    request_times,    \* RateLimiterMiddleware._request_times (deque, oldest first)
    clock,            \* value time.monotonic() returns now
    running,          \* task holding the event loop, 0 when none
    pc,               \* per request: position inside dispatch
    current_time,     \* per request: local current_time of dispatch (0 once
                      \* dispatch has returned)
    entry_log,        \* per request: _request_times as found on entry, kept
                      \* until the decision is recorded in trace
    decision,         \* per request: "NONE", "ADMITTED" or "REJECTED"
    calls,            \* per request: number of call_next invocations
    handler_ops,      \* per request: scoring / data-store operations run
    status,           \* per request: status of the response sent, 0 = none
    trace,            \* admission decisions in the order they were made
    \* --- one request inside the routed application (main.py)
    request,          \* the request at hand: method, path, x_api_key, empty
    API_KEY,          \* os.getenv("API_KEY"), None when unset
    h_pc,             \* position of the request inside the application
    handler,          \* name of the endpoint function the router chose
    company_id,       \* path parameter bound by the router, None when none
    h_status,         \* status of the application's response, 0 = none yet
    h_ops,            \* scoring / data-store operations the handler ran
    \* --- one run of the rescoring job score_all (main.py:66-88)
    ethics_score,     \* data store: ethics_score of every company
    job_pc,           \* position inside score_all
    offset_val,       \* local offset_val
    total_updated,    \* local total_updated
    companies,        \* local companies: the page list_companies returned
    idx,              \* position of the for loop in companies
    rescored,         \* per company: times scored and updated in this run
    fetched,          \* companies returned by list_companies so far
    attempts,         \* loop iterations started so far
    failures,         \* loop iterations that ended in the except branch
    job_result        \* the "rescored" value returned, None while running

limiterVars == <<max_requests, window_seconds, request_times, clock, running,
                 pc, current_time, entry_log, decision, calls, handler_ops,
                 status, trace>>
routeVars == <<request, API_KEY, h_pc, handler, company_id, h_status, h_ops>>
jobVars == <<ethics_score, job_pc, offset_val, total_updated, companies, idx,
             rescored, fetched, attempts, failures, job_result>>

vars == <<limiterVars, routeVars, jobVars>>

\* Python's None
None == "None"

\* the value of request while no request is at hand
NoRequest == [method |-> None, path |-> <<>>, x_api_key |-> None, empty |-> TRUE]

\* ------------------------------------------------------- dispatch, line by line

\* auth.py:60  current_time - self._request_times[0] > self.window_seconds
ExpiredLate(e, now) == now - e > window_seconds + 1
ExpiredInclusive(e, now) == now - e >= window_seconds
ExpiredIgnoresWindow(e, now) == now - e > 0
Expired(e, now) == now - e > window_seconds

\* auth.py:62  len(self._request_times) >= self.max_requests
LimitReachedOffByOne(log) == Len(log) > max_requests
LimitReached(log) == Len(log) >= max_requests

\* auth.py:62-65  raise on a full log, else append current_time
DecideAppendFirst(log, now) ==
    LET l == Append(log, now)
    IN  IF Len(l) > max_requests
        THEN [outcome |-> "REJECTED", log |-> l]
        ELSE [outcome |-> "ADMITTED", log |-> l]
DecideEvictOnReject(log, now) ==
    IF LimitReached(log)
    THEN [outcome |-> "REJECTED", log |-> Tail(log)]
    ELSE [outcome |-> "ADMITTED", log |-> Append(log, now)]
DecideAppendLeft(log, now) ==
    IF LimitReached(log)
    THEN [outcome |-> "REJECTED", log |-> log]
    ELSE [outcome |-> "ADMITTED", log |-> <<now>> \o log]
Decide(log, now) ==
    IF LimitReached(log)
    THEN [outcome |-> "REJECTED", log |-> log]
    ELSE [outcome |-> "ADMITTED", log |-> Append(log, now)]

\* auth.py:62-66  the raise ends dispatch; call_next is reached only when
\* the limit check let the request through
CallsNextAlways(outcome) == TRUE
CallsNext(outcome) == outcome = "ADMITTED"

\* auth.py:57-66  the only await of dispatch is "await call_next(request)"
AwaitsBeforeCheck(p) == p \in {"check", "downstream"}
Awaits(p) == p = "downstream"

\* auth.py:64 with main.py:37  the HTTPException leaves dispatch as an
\* exception.  add_middleware puts the limiter outside the application's
\* exception handlers, so no handler turns it into a response with its
\* status_code; the server's catch-all error response is sent instead.
RaisedInMiddleware(status_code) == 500

\* what the routed application can answer, as <<status, scoring / data-store
\* operations run>>: 200 from health (main.py:42) with none, 200 from a
\* handler that used the data store or scoring (main.py:52, 61-63, 75-88,
\* 100-101), 401 from verify_api_key (auth.py:38) and 400 from
\* update_company_fields (main.py:99) before any such operation, 500 from a
\* handler whose scoring or data-store call failed (main.py:61-62)
DownstreamOutcomes == {<<200, 0>>, <<200, 1>>, <<401, 0>>, <<400, 0>>, <<500, 1>>}

\* the event loop runs a task from its start or from an await it is parked at
CanRun(r) ==
    \/ running = r
    \/ running = 0 /\ (pc[r] = "idle" \/ Awaits(pc[r]))

\* who holds the loop after a step of r that ends at position p
Holder(r, p) == IF Awaits(p) \/ p = "done" THEN 0 ELSE r

\* ------------------------------------------------------------------- Init

\* no request is inside the application
RouteIdle ==
    /\ request = NoRequest
    /\ API_KEY = None
    /\ h_pc = "idle"
    /\ handler = None
    /\ company_id = None
    /\ h_status = 0
    /\ h_ops = 0

\* the rescoring job is not running
JobIdle ==
    /\ ethics_score = <<>>
    /\ job_pc = "idle"
    /\ offset_val = 0
    /\ total_updated = 0
    /\ companies = <<>>
    /\ idx = 0
    /\ rescored = <<>>
    /\ fetched = 0
    /\ attempts = 0
    /\ failures = 0
    /\ job_result = None

Init ==
    /\ max_requests \in 1..MaxRequestsBound
    /\ window_seconds \in 1..MaxWindow
    /\ request_times = <<>>
    /\ clock = 0
    /\ running = 0
    /\ pc = [r \in Requests |-> "idle"]
    /\ current_time = [r \in Requests |-> 0]
    /\ entry_log = [r \in Requests |-> <<>>]
    /\ decision = [r \in Requests |-> "NONE"]
    /\ calls = [r \in Requests |-> 0]
    /\ handler_ops = [r \in Requests |-> 0]
    /\ status = [r \in Requests |-> 0]
    /\ trace = <<>>
    /\ RouteIdle
    /\ JobIdle

\* ---------------------------------------------------------------- actions

\* time passes
Tick ==
    /\ UNCHANGED <<routeVars, jobVars>>
    /\ clock < MaxTime
    /\ clock' = clock + 1
    /\ UNCHANGED <<max_requests, window_seconds, request_times, running, pc,
                   current_time, entry_log, decision, calls, handler_ops,
                   status, trace>>

\* auth.py:58  current_time = time.monotonic()
ReadClock(r) ==
    /\ UNCHANGED <<routeVars, jobVars>>
    /\ pc[r] = "idle"
    /\ CanRun(r)
    /\ current_time' = [current_time EXCEPT ![r] = clock]
    /\ entry_log' = [entry_log EXCEPT ![r] = request_times]
    /\ pc' = [pc EXCEPT ![r] = "purge"]
    /\ running' = Holder(r, "purge")
    /\ UNCHANGED <<max_requests, window_seconds, request_times, clock,
                   decision, calls, handler_ops, status, trace>>

\* auth.py:60-61  one evaluation of the while condition, one popleft
PurgeStep(r) ==
    /\ UNCHANGED <<routeVars, jobVars>>
    /\ pc[r] = "purge"
    /\ CanRun(r)
    /\ IF request_times # <<>> /\ Expired(Head(request_times), current_time[r])
       THEN /\ request_times' = Tail(request_times)
            /\ pc' = pc
            /\ running' = Holder(r, "purge")
       ELSE /\ request_times' = request_times
            /\ pc' = [pc EXCEPT ![r] = "check"]
            /\ running' = Holder(r, "check")
    /\ UNCHANGED <<max_requests, window_seconds, clock, current_time,
                   entry_log, decision, calls, handler_ops, status, trace>>

\* auth.py:62-65  the admission decision
Check(r) ==
    /\ UNCHANGED <<routeVars, jobVars>>
    /\ pc[r] = "check"
    /\ CanRun(r)
    /\ LET d == Decide(request_times, current_time[r])
           nxt == IF CallsNext(d.outcome) THEN "call_next" ELSE "raise"
       IN  /\ request_times' = d.log
           /\ decision' = [decision EXCEPT ![r] = d.outcome]
           /\ trace' = Append(trace, [now |-> current_time[r],
                                      outcome |-> d.outcome,
                                      before |-> entry_log[r],
                                      after |-> d.log])
           /\ entry_log' = [entry_log EXCEPT ![r] = <<>>]
           /\ pc' = [pc EXCEPT ![r] = nxt]
           /\ running' = Holder(r, nxt)
    /\ UNCHANGED <<max_requests, window_seconds, clock, current_time,
                   calls, handler_ops, status>>

\* auth.py:64  raise HTTPException(status_code=429, ...)
Raise(r) ==
    /\ UNCHANGED <<routeVars, jobVars>>
    /\ pc[r] = "raise"
    /\ CanRun(r)
    /\ status' = [status EXCEPT ![r] = RaisedInMiddleware(429)]
    /\ current_time' = [current_time EXCEPT ![r] = 0]
    /\ pc' = [pc EXCEPT ![r] = "done"]
    /\ running' = Holder(r, "done")
    /\ UNCHANGED <<max_requests, window_seconds, request_times, clock,
                   entry_log, decision, calls, handler_ops, trace>>

\* auth.py:66  call_next(request): the request enters the routed application
CallNext(r) ==
    /\ UNCHANGED <<routeVars, jobVars>>
    /\ pc[r] = "call_next"
    /\ CanRun(r)
    /\ calls' = [calls EXCEPT ![r] = @ + 1]
    /\ pc' = [pc EXCEPT ![r] = "downstream"]
    /\ running' = Holder(r, "downstream")
    /\ UNCHANGED <<max_requests, window_seconds, request_times, clock,
                   current_time, entry_log, decision, handler_ops, status,
                   trace>>

\* auth.py:66  the await completes: dispatch returns the downstream response
ReturnFreesSlot(r) ==
    /\ UNCHANGED <<routeVars, jobVars>>
    /\ pc[r] = "downstream"
    /\ CanRun(r)
    /\ \E o \in DownstreamOutcomes :
          /\ status' = [status EXCEPT ![r] = o[1]]
          /\ handler_ops' = [handler_ops EXCEPT ![r] = @ + o[2]]
    /\ request_times' = IF request_times = <<>> THEN <<>> ELSE Tail(request_times)
    /\ current_time' = [current_time EXCEPT ![r] = 0]
    /\ pc' = [pc EXCEPT ![r] = "done"]
    /\ running' = Holder(r, "done")
    /\ UNCHANGED <<max_requests, window_seconds, clock,
                   entry_log, decision, calls, trace>>
Return(r) ==
    /\ UNCHANGED <<routeVars, jobVars>>
    /\ pc[r] = "downstream"
    /\ CanRun(r)
    /\ \E o \in DownstreamOutcomes :
          /\ status' = [status EXCEPT ![r] = o[1]]
          /\ handler_ops' = [handler_ops EXCEPT ![r] = @ + o[2]]
    /\ current_time' = [current_time EXCEPT ![r] = 0]
    /\ pc' = [pc EXCEPT ![r] = "done"]
    /\ running' = Holder(r, "done")
    /\ UNCHANGED <<max_requests, window_seconds, request_times, clock,
                   entry_log, decision, calls, trace>>

Next ==
    \/ Tick
    \/ \E r \in Requests : ReadClock(r)
    \/ \E r \in Requests : PurgeStep(r)
    \/ \E r \in Requests : Check(r)
    \/ \E r \in Requests : Raise(r)
    \/ \E r \in Requests : CallNext(r)
    \/ \E r \in Requests : Return(r)

Spec == Init /\ [][Next]_vars

\* ------------------------------------------- dispatch, one call after another
\* The same middleware driven by a single client: each call runs lines 58-65
\* to the end before the next one arrives.  Ticks are 0.01 s here.

MaxCalls == 12

\* clock readings of the calls: 0.0, 0.05, 0.1, 0.2, 1.01 and 1.05 s
ScenarioTimes == {0, 5, 10, 20, 101, 105}

\* requests that differ in method, path and API key
RequestKinds ==
    { [method |-> "GET", path |-> <<"health">>, x_api_key |-> None, empty |-> TRUE],
      [method |-> "POST", path |-> <<"score", "c1">>, x_api_key |-> "good", empty |-> TRUE],
      [method |-> "PATCH", path |-> <<"companies", "c1">>, x_api_key |-> "bad", empty |-> FALSE] }

\* auth.py:60-61  the whole while loop
RECURSIVE Purge(_, _)
PurgeOnce(log, now) ==
    IF log # <<>> /\ Expired(Head(log), now) THEN Tail(log) ELSE log
PurgeResets(log, now) ==
    IF log # <<>> /\ Expired(Head(log), now) THEN <<>> ELSE log
Purge(log, now) ==
    IF log # <<>> /\ Expired(Head(log), now)
    THEN Purge(Tail(log), now)
    ELSE log

\* auth.py:57-65  dispatch(self, request, call_next) up to its decision; the
\* request is a parameter the body never reads
DispatchDecisionExemptsKey(log, now, req) ==
    IF req.x_api_key = "good"
    THEN [outcome |-> "ADMITTED", log |-> Append(Purge(log, now), now)]
    ELSE Decide(Purge(log, now), now)
DispatchDecision(log, now, req) == Decide(Purge(log, now), now)

\* main.py:37  max_requests=10, window_seconds=1.0, and the limit of two
\* used for the sliding example
ScenarioInit ==
    /\ max_requests \in {2, 10}
    /\ window_seconds = 100
    /\ request_times = <<>>
    /\ clock = 0
    /\ running = 0
    /\ pc = [r \in Requests |-> "idle"]
    /\ current_time = [r \in Requests |-> 0]
    /\ entry_log = [r \in Requests |-> <<>>]
    /\ decision = [r \in Requests |-> "NONE"]
    /\ calls = [r \in Requests |-> 0]
    /\ handler_ops = [r \in Requests |-> 0]
    /\ status = [r \in Requests |-> 0]
    /\ trace = <<>>
    /\ RouteIdle
    /\ JobIdle

\* auth.py:57-65  one call of dispatch with clock reading t
Dispatch(t, req) ==
    /\ Len(trace) < MaxCalls
    /\ t >= clock
    /\ clock' = t
    /\ request' = req
    /\ LET d == DispatchDecision(request_times, t, req)
       IN  /\ request_times' = d.log
           /\ trace' = Append(trace, [now |-> t,
                                      outcome |-> d.outcome,
                                      before |-> request_times,
                                      after |-> d.log])
    /\ UNCHANGED <<max_requests, window_seconds, running, pc, current_time,
                   entry_log, decision, calls, handler_ops, status>>
    /\ UNCHANGED <<API_KEY, h_pc, handler, company_id, h_status, h_ops>>
    /\ UNCHANGED jobVars

ScenarioNext == \E t \in ScenarioTimes, req \in RequestKinds : Dispatch(t, req)

ScenarioSpec == ScenarioInit /\ [][ScenarioNext]_vars

\* ------------------------------------------------ the routed application
\* One admitted request inside the application create_app builds: the
\* router picks an endpoint, the endpoint's dependencies run, then its body.

\* the limiter as create_app constructs it (main.py:37), no request in it
LimiterParked ==
    /\ max_requests = 10
    /\ window_seconds = 1
    /\ request_times = <<>>
    /\ clock = 0
    /\ running = 0
    /\ pc = [r \in Requests |-> "idle"]
    /\ current_time = [r \in Requests |-> 0]
    /\ entry_log = [r \in Requests |-> <<>>]
    /\ decision = [r \in Requests |-> "NONE"]
    /\ calls = [r \in Requests |-> 0]
    /\ handler_ops = [r \in Requests |-> 0]
    /\ status = [r \in Requests |-> 0]
    /\ trace = <<>>

\* a path segment that binds the path parameter company_id
Param == "{company_id}"

\* main.py:39, 44, 55, 65, 90  the routes in the order the decorators run
Routes ==
    << [method |-> "GET",   pattern |-> <<"health">>,           endpoint |-> "health",                gated |-> FALSE],
       [method |-> "GET",   pattern |-> <<"companies">>,        endpoint |-> "get_companies",         gated |-> FALSE],
       [method |-> "POST",  pattern |-> <<"score", Param>>,     endpoint |-> "score_one",             gated |-> TRUE],
       [method |-> "POST",  pattern |-> <<"score", "cron">>,    endpoint |-> "score_all",             gated |-> TRUE],
       [method |-> "PATCH", pattern |-> <<"companies", Param>>, endpoint |-> "update_company_fields", gated |-> TRUE] >>

\* a pattern matches a path of the same length whose segments equal its
\* literal segments; a parameter segment matches any segment
PathMatches(pattern, path) ==
    /\ Len(pattern) = Len(path)
    /\ \A k \in DOMAIN pattern : pattern[k] = Param \/ pattern[k] = path[k]

\* routes are tried in registration order and the first one matching path
\* and method handles the request; a path that only routes with another
\* method match gives 405, an unknown path 404
Resolve(method, path) ==
    LET full == {i \in DOMAIN Routes :
                    PathMatches(Routes[i].pattern, path) /\ Routes[i].method = method}
        partial == {i \in DOMAIN Routes : PathMatches(Routes[i].pattern, path)}
    IN  IF full # {} THEN CHOOSE i \in full : \A j \in full : i <= j
        ELSE IF partial # {} THEN 405
        ELSE 404

\* the value bound to company_id by a pattern, None when it has no parameter
BoundParam(pattern, path) ==
    IF \E k \in DOMAIN pattern : pattern[k] = Param
    THEN path[CHOOSE k \in DOMAIN pattern : pattern[k] = Param]
    ELSE None

\* auth.py:24-38  verify_api_key: the status it raises, 0 when it returns
VerifyApiKeyAllowsMissing(x_api_key, expected_key) ==
    IF expected_key = None THEN 500
    ELSE IF x_api_key # None /\ x_api_key # expected_key THEN 401
    ELSE 0
VerifyApiKey(x_api_key, expected_key) ==
    IF expected_key = None THEN 500
    ELSE IF x_api_key # expected_key THEN 401
    ELSE 0

\* what an endpoint's body can end with, as <<status, scoring / data-store
\* operations started>>; an operation that raises ends the request with 500
BodyOutcomes(endpoint, req) ==
    CASE endpoint = "health" -> {<<200, 0>>}                             \* main.py:42
      [] endpoint = "get_companies" -> {<<200, 1>>, <<500, 1>>}          \* main.py:52-53
      [] endpoint = "score_one" -> {<<500, 1>>, <<500, 2>>, <<200, 2>>}  \* main.py:61-63
      [] endpoint = "score_all" -> {<<200, 1>>, <<500, 1>>}              \* main.py:71-88
      [] endpoint = "update_company_fields" ->                           \* main.py:97-101
            IF req.empty THEN {<<400, 0>>} ELSE {<<200, 1>>, <<500, 1>>}

\* requests a client can send
RouteRequests ==
    [method : {"GET", "POST", "PATCH"},
     path : {<<"health">>, <<"companies">>, <<"companies", "c1">>,
             <<"score", "c1">>, <<"score", "cron">>, <<"other">>},
     x_api_key : {None, "good", "bad"},
     empty : BOOLEAN]

RouteInit ==
    /\ LimiterParked
    /\ JobIdle
    /\ request \in RouteRequests
    /\ API_KEY \in {None, "good"}
    /\ h_pc = "route"
    /\ handler = None
    /\ company_id = None
    /\ h_status = 0
    /\ h_ops = 0

\* the router chooses the endpoint
RouteStep ==
    /\ h_pc = "route"
    /\ LET i == Resolve(request.method, request.path)
       IN  IF i \in DOMAIN Routes
           THEN /\ handler' = Routes[i].endpoint
                /\ company_id' = BoundParam(Routes[i].pattern, request.path)
                /\ h_pc' = IF Routes[i].gated THEN "verify" ELSE "body"
                /\ h_status' = h_status
           ELSE /\ h_status' = i
                /\ h_pc' = "done"
                /\ UNCHANGED <<handler, company_id>>
    /\ UNCHANGED <<request, API_KEY, h_ops>>
    /\ UNCHANGED <<limiterVars, jobVars>>

\* main.py:58, 66, 94  _=Depends(auth.verify_api_key) runs before the body
VerifyStep ==
    /\ h_pc = "verify"
    /\ LET v == VerifyApiKey(request.x_api_key, API_KEY)
       IN  IF v = 0
           THEN /\ h_pc' = "body"
                /\ h_status' = h_status
           ELSE /\ h_pc' = "done"
                /\ h_status' = v
    /\ UNCHANGED <<request, API_KEY, handler, company_id, h_ops>>
    /\ UNCHANGED <<limiterVars, jobVars>>

\* the endpoint's body runs
BodyStep ==
    /\ h_pc = "body"
    /\ \E o \in BodyOutcomes(handler, request) :
          /\ h_status' = o[1]
          /\ h_ops' = h_ops + o[2]
    /\ h_pc' = "done"
    /\ UNCHANGED <<request, API_KEY, handler, company_id>>
    /\ UNCHANGED <<limiterVars, jobVars>>

RouteNext == RouteStep \/ VerifyStep \/ BodyStep

RouteSpec == RouteInit /\ [][RouteNext]_vars

\* ------------------------------------------------ the rescoring job score_all
\* One run of the body of score_all (main.py:71-88) against a data store
\* holding a fixed set of companies.

NumCompanies == 3
\* batch_size of main.py:71 (200 there), scaled down with the data store
BatchSize == 2
\* ethics scores range over 0..MaxScore (0..100 in models.py:27)
MaxScore == 2

Companies == 1..NumCompanies
Scores == 0..MaxScore

\* supabase.py:35, 61-67  the default order "-ethics_score": descending
\* ethics_score, companies of equal score in a fixed order (by id)
Before(a, b) ==
    \/ ethics_score[a] > ethics_score[b]
    \/ ethics_score[a] = ethics_score[b] /\ a < b

\* position of a company in that order, from 0
Rank(c) == Cardinality({d \in Companies : Before(d, c)})

\* supabase.py:33-73  list_companies(limit, offset): rows offset ..
\* offset + limit - 1 of the ordered table (the Range header of line 68)
ListCompanies(limit, offset) ==
    LET avail == NumCompanies - offset
        n == IF avail <= 0 THEN 0 ELSE IF avail < limit THEN avail ELSE limit
    IN  [k \in 1..n |-> CHOOSE c \in Companies : Rank(c) = offset + k - 1]

JobInit ==
    /\ LimiterParked
    /\ RouteIdle
    /\ ethics_score \in [Companies -> Scores]
    /\ job_pc = "list"
    /\ offset_val = 0
    /\ total_updated = 0
    /\ companies = <<>>
    /\ idx = 0
    /\ rescored = [c \in Companies |-> 0]
    /\ fetched = 0
    /\ attempts = 0
    /\ failures = 0
    /\ job_result = None

\* main.py:75-77, 88  fetch the next page; an empty page ends the job
ListPage ==
    /\ job_pc = "list"
    /\ LET page == ListCompanies(BatchSize, offset_val)
       IN  /\ companies' = page
           /\ fetched' = fetched + Len(page)
           /\ IF page = <<>>
              THEN /\ job_pc' = "done"
                   /\ job_result' = total_updated
                   /\ idx' = 0
              ELSE /\ job_pc' = "loop"
                   /\ job_result' = job_result
                   /\ idx' = 1
    /\ UNCHANGED <<ethics_score, offset_val, total_updated, rescored,
                   attempts, failures>>
    /\ UNCHANGED <<limiterVars, routeVars>>

\* main.py:75  list_companies raises (supabase.py:72): nothing catches it
ListFails ==
    /\ job_pc = "list"
    /\ job_pc' = "raised"
    /\ UNCHANGED <<ethics_score, offset_val, total_updated, companies, idx,
                   rescored, fetched, attempts, failures, job_result>>
    /\ UNCHANGED <<limiterVars, routeVars>>

\* main.py:78, 87  the for loop moves on; after the last company of the page
\* offset_val grows by batch_size and the while loop fetches again
Advance ==
    IF idx < Len(companies)
    THEN /\ idx' = idx + 1
         /\ UNCHANGED <<job_pc, offset_val>>
    ELSE /\ idx' = 0
         /\ job_pc' = "list"
         /\ offset_val' = offset_val + BatchSize

\* main.py:79-83  score_company and update_company both succeed
RescoreOk(s) ==
    /\ job_pc = "loop"
    /\ LET c == companies[idx]
       IN  /\ ethics_score' = [ethics_score EXCEPT ![c] = s]
           /\ rescored' = [rescored EXCEPT ![c] = @ + 1]
    /\ total_updated' = total_updated + 1
    /\ attempts' = attempts + 1
    /\ Advance
    /\ UNCHANGED <<companies, fetched, failures, job_result>>
    /\ UNCHANGED <<limiterVars, routeVars>>

\* main.py:80-86  score_company or update_company raises: the except branch
\* prints and the loop goes on
RescoreFailsAborts ==
    /\ job_pc = "loop"
    /\ attempts' = attempts + 1
    /\ failures' = failures + 1
    /\ job_pc' = "raised"
    /\ UNCHANGED <<idx, offset_val>>
    /\ UNCHANGED <<ethics_score, total_updated, companies, rescored, fetched,
                   job_result>>
    /\ UNCHANGED <<limiterVars, routeVars>>
RescoreFails ==
    /\ job_pc = "loop"
    /\ attempts' = attempts + 1
    /\ failures' = failures + 1
    /\ Advance
    /\ UNCHANGED <<ethics_score, total_updated, companies, rescored, fetched,
                   job_result>>
    /\ UNCHANGED <<limiterVars, routeVars>>

JobNext ==
    \/ ListPage
    \/ ListFails
    \/ \E s \in Scores : RescoreOk(s)
    \/ RescoreFails

JobSpec == JobInit /\ [][JobNext]_vars

\* ------------------------------------------------------- helpers for the claims
Decided == DOMAIN trace
Elems(q) == {q[i] : i \in DOMAIN q}
Min(a, b) == IF a <= b THEN a ELSE b
Rejections == {i \in Decided : trace[i].outcome = "REJECTED"}
Admissions == {i \in Decided : trace[i].outcome = "ADMITTED"}

\* admitted calls stamped in the half-open interval (lo, hi]
AdmittedIn(lo, hi) ==
    Cardinality({i \in Admissions : lo < trace[i].now /\ trace[i].now <= hi})

\* what remains of q once every front entry more than window_seconds older
\* than now has been dropped
RECURSIVE Unexpired(_, _)
Unexpired(q, now) ==
    IF q # <<>> /\ now - Head(q) > window_seconds
    THEN Unexpired(Tail(q), now)
    ELSE q

\* positions of dispatch between reading the clock and the decision
InSection(p) == p \in {"purge", "check"}
\* positions at which a task does not hold the event loop
Parked(p) == p \in {"idle", "downstream", "done"}

\* ------------------------------------------------------------------ claims

\* C1: for every call k, admitted or not, the number of calls admitted with a
\* timestamp in (t_k - window_seconds, t_k] is at most max_requests.
C1_SlidingWindowBound ==
    \A k \in Decided :
        AdmittedIn(trace[k].now - window_seconds, trace[k].now) <= max_requests

\* a call is rejected against a full window and a later call, once the
\* window has slid, is admitted again
C1_Witness ==
    \E k \in Rejections, j \in Admissions :
        /\ k < j
        /\ trace[j].now > trace[k].now
        /\ AdmittedIn(trace[k].now - window_seconds, trace[k].now) = max_requests
        /\ AdmittedIn(trace[j].now - window_seconds, trace[j].now) = max_requests

\* C2: in every reachable state the request-timestamp log holds at most
\* max_requests entries.
C2_LogSizeBound == Len(request_times) <= max_requests

\* the log is full, a request has been turned away, another is in flight
C2_Witness ==
    /\ Len(request_times) = max_requests
    /\ \E r \in Requests : decision[r] = "REJECTED"
    /\ \E r \in Requests : pc[r] = "downstream"

\* C3: when all N calls decided so far, starting from the empty log, read the
\* same timestamp, exactly min(N, max_requests) are admitted, the others are
\* rejected, and the log after the last of them has min(N, max_requests)
\* entries.
C3_ConcurrentAdmissionCount ==
    (trace # <<>> /\ \A i \in Decided : trace[i].now = trace[1].now)
        => /\ Cardinality(Admissions) = Min(Len(trace), max_requests)
           /\ Cardinality(Rejections) = Len(trace) - Min(Len(trace), max_requests)
           /\ Len(trace[Len(trace)].after) = Min(Len(trace), max_requests)

\* every request was decided at one timestamp, more of them than the limit,
\* while an admitted one was still in flight downstream
C3_Witness ==
    /\ Len(trace) = NumRequests
    /\ \A i \in Decided : trace[i].now = trace[1].now
    /\ Rejections # {}
    /\ \E r \in Requests : pc[r] = "downstream"

\* C4: a request between its clock read and its decision holds the event loop,
\* every other request is parked outside that section, and the log it works on
\* is the log it found on entry with only its own purge applied; a task is
\* parked only before dispatch, at the downstream await, or when finished.
C4_AtomicCriticalSection ==
    /\ \A r \in Requests :
          InSection(pc[r]) =>
             /\ running = r
             /\ \A o \in Requests \ {r} : Parked(pc[o])
             /\ \E n \in 0..Len(entry_log[r]) :
                   request_times = SubSeq(entry_log[r], n + 1, Len(entry_log[r]))
             /\ pc[r] = "check" =>
                   request_times = Unexpired(entry_log[r], current_time[r])
    /\ running = 0 => \A r \in Requests : Parked(pc[r])

\* a request is at its limit check, having purged, while another request is
\* suspended in its downstream call
C4_Witness ==
    \E r, o \in Requests :
        /\ pc[r] = "check"
        /\ pc[o] = "downstream"
        /\ Len(request_times) < Len(entry_log[r])

\* C5: every rejected request is answered with status 429.
C5_RejectedGets429 ==
    \A r \in Requests :
        (decision[r] = "REJECTED" /\ pc[r] = "done") => status[r] = 429

\* C6: each request is decided once, before anything downstream runs; a
\* rejected request never reaches call_next and causes no scoring or
\* data-store operation; an admitted request reaches call_next exactly once.
C6_AdmissionGatesPipeline ==
    /\ Len(trace) = Cardinality({r \in Requests : decision[r] # "NONE"})
    /\ \A r \in Requests :
          /\ decision[r] = "NONE" => calls[r] = 0 /\ handler_ops[r] = 0
          /\ decision[r] = "REJECTED" => calls[r] = 0 /\ handler_ops[r] = 0
          /\ (decision[r] = "ADMITTED" /\ pc[r] \in {"downstream", "done"})
                => calls[r] = 1
          /\ calls[r] <= 1
          /\ handler_ops[r] <= calls[r]

\* one request was turned away and is finished, another was admitted and
\* its handler ran
C6_Witness ==
    \E r, o \in Requests :
        /\ decision[r] = "REJECTED" /\ pc[r] = "done"
        /\ decision[o] = "ADMITTED" /\ pc[o] = "done" /\ handler_ops[o] = 1

\* C7: a call that is rejected leaves the log exactly as it found it; its
\* purge step removed nothing.
C7_RejectionLeavesLogUntouched ==
    \A i \in Rejections : trace[i].after = trace[i].before

\* a call is rejected at a later time than the entries it finds, so its purge
\* loop did compare against older entries
C7_Witness ==
    \E i \in Rejections :
        /\ trace[i].before # <<>>
        /\ trace[i].now > Head(trace[i].before)

\* C8: after a call at timestamp t has been rejected, every later call whose
\* timestamp is not greater than t is rejected too and leaves the log as found.
C8_IdempotentRejection ==
    \A i \in Rejections, j \in Decided :
        (i < j /\ trace[j].now <= trace[i].now)
            => /\ trace[j].outcome = "REJECTED"
               /\ trace[j].after = trace[j].before
               /\ trace[j].after = trace[i].after

\* two rejections in a row at one timestamp against the full log
C8_Witness ==
    \E i, j \in Rejections :
        /\ i < j
        /\ trace[j].now = trace[i].now
        /\ Len(trace[i].before) = max_requests

\* C9: right after a decision made at timestamp now, every entry e of the log
\* has now - e <= window_seconds.
C9_MonotonicPurge ==
    \A i \in Decided :
        \A e \in Elems(trace[i].after) : trace[i].now - e <= window_seconds

\* a decision whose purge dropped an expired entry and kept a younger one
C9_Witness ==
    \E i \in Decided :
        /\ trace[i].before # <<>>
        /\ trace[i].now - Head(trace[i].before) > window_seconds
        /\ \E e \in Elems(trace[i].before) : e \in Elems(trace[i].after)

\* C10: against a log of max_requests entries all stamped t0, a call at
\* exactly t0 + window_seconds is rejected and a call at any later timestamp
\* is admitted.
C10_InclusiveBoundary ==
    \A i \in Decided :
        LET b == trace[i].before
        IN  (Len(b) = max_requests /\ \A k \in DOMAIN b : b[k] = b[1])
                => /\ trace[i].now = b[1] + window_seconds
                        => trace[i].outcome = "REJECTED"
                   /\ trace[i].now > b[1] + window_seconds
                        => trace[i].outcome = "ADMITTED"

\* both halves occur: a rejection exactly at the boundary and an admission
\* just past it, each against a full log of equal stamps
C10_Witness ==
    \E i \in Rejections, j \in Admissions :
        /\ Len(trace[i].before) = max_requests
        /\ \A k \in DOMAIN trace[i].before : trace[i].before[k] = trace[i].before[1]
        /\ trace[i].now = trace[i].before[1] + window_seconds
        /\ Len(trace[j].before) = max_requests
        /\ \A k \in DOMAIN trace[j].before : trace[j].before[k] = trace[j].before[1]
        /\ trace[j].now > trace[j].before[1] + window_seconds

\* C11: a call at now is rejected exactly when at least max_requests earlier
\* admitted calls have now - t <= window_seconds; otherwise it is admitted and
\* the log afterwards is those earlier admitted timestamps, in admission
\* order, followed by now.
C11_ReferenceRule ==
    \A i \in Decided :
        LET now == trace[i].now
            InWindow(x) == x.outcome = "ADMITTED" /\ now - x.now <= window_seconds
            prev == SelectSeq(SubSeq(trace, 1, i - 1), InWindow)
            stamps == [k \in DOMAIN prev |-> prev[k].now]
        IN  /\ trace[i].outcome = "REJECTED" <=> Len(prev) >= max_requests
            /\ trace[i].outcome = "ADMITTED" => trace[i].after = Append(stamps, now)

\* a call is rejected with the window full and a later call, made after the
\* earlier admissions have left the window, is admitted onto a purged log
C11_Witness ==
    \E i \in Rejections, j \in Admissions :
        /\ i < j
        /\ trace[j].before # <<>>
        /\ trace[j].now - Head(trace[j].before) > window_seconds
        /\ Len(trace[j].after) < Len(trace[j].before) + 1

\* C18: in every reachable state the log is sorted oldest first.
C18_LogOrdered ==
    \A i, j \in DOMAIN request_times :
        i < j => request_times[i] <= request_times[j]

\* the log holds entries of two different clock readings while a request is
\* in flight downstream
C18_Witness ==
    /\ Len(request_times) >= 2
    /\ request_times[1] < request_times[Len(request_times)]
    /\ \E r \in Requests : pc[r] = "downstream"

\* C20: max_requests and window_seconds never change; the log changes only by
\* a dispatch's purge of an entry older than window_seconds or by a dispatch's
\* append of its own timestamp; no step of a request past its decision (the
\* downstream call, its outcome, the raise) changes the log.
C20_SlotsReleasedOnlyByExpiry ==
    [][ /\ max_requests' = max_requests
        /\ window_seconds' = window_seconds
        /\ request_times' # request_times =>
              \E r \in Requests :
                  \/ /\ pc[r] = "purge"
                     /\ request_times # <<>>
                     /\ current_time[r] - Head(request_times) > window_seconds
                     /\ request_times' = Tail(request_times)
                  \/ /\ pc[r] = "check"
                     /\ request_times' = Append(request_times, current_time[r])
        /\ \A r \in Requests :
              (pc[r] \in {"raise", "call_next", "downstream"} /\ pc'[r] # pc[r])
                  => request_times' = request_times
      ]_vars

\* with a limit of one, a request that ended in 401 occupies the only slot
\* and another request was turned away
C20_Witness ==
    /\ max_requests = 1
    /\ \E r, o \in Requests :
          /\ pc[r] = "done" /\ status[r] = 401
          /\ decision[o] = "REJECTED"
          /\ request_times # <<>>

\* the clock readings of the first n decisions
Stamps(n) == [k \in 1..n |-> trace[k].now]
Outcomes(n) == [k \in 1..n |-> trace[k].outcome]

\* C12: a call made when the oldest log entry is more than window_seconds old
\* is admitted; with max_requests = 10 and a window of 1.0 s, ten calls at 0.0
\* are admitted, the call at 0.05 is rejected and the call at 1.01 is admitted
\* onto a log from which all ten old entries are gone.
C12_RecoveryAfterWindow ==
    /\ \A i \in Decided :
          (trace[i].before # <<>>
             /\ trace[i].now - Head(trace[i].before) > window_seconds)
                => trace[i].outcome = "ADMITTED"
    /\ (/\ max_requests = 10
        /\ Len(trace) >= 12
        /\ Stamps(12) = <<0, 0, 0, 0, 0, 0, 0, 0, 0, 0, 5, 101>>)
          => /\ \A k \in 1..10 : trace[k].outcome = "ADMITTED"
             /\ trace[11].outcome = "REJECTED"
             /\ trace[12].outcome = "ADMITTED"
             /\ trace[12].after = <<101>>

\* the twelve calls of the example have been made
C12_Witness ==
    /\ max_requests = 10
    /\ Len(trace) = 12
    /\ Stamps(12) = <<0, 0, 0, 0, 0, 0, 0, 0, 0, 0, 5, 101>>
    /\ Len(trace[12].before) = 10

\* C13: a purge drops only the entries older than window_seconds and keeps the
\* others, in order; with max_requests = 2 and a window of 1.0 s, calls at
\* 0.0, 0.1, 0.2, 1.05, 1.05 are admitted, admitted, rejected, admitted,
\* rejected and the log after the last one is [0.1, 1.05].
C13_WindowSlides ==
    /\ \A i \in Decided :
          LET now == trace[i].now
              Young(e) == now - e <= window_seconds
              kept == SelectSeq(trace[i].before, Young)
          IN  /\ Len(trace[i].after) >= Len(kept)
              /\ SubSeq(trace[i].after, 1, Len(kept)) = kept
    /\ (/\ max_requests = 2
        /\ Len(trace) >= 5
        /\ Stamps(5) = <<0, 10, 20, 105, 105>>)
          => /\ Outcomes(5) = <<"ADMITTED", "ADMITTED", "REJECTED",
                               "ADMITTED", "REJECTED">>
             /\ trace[5].after = <<10, 105>>

\* the five calls of the example have been made
C13_Witness ==
    /\ max_requests = 2
    /\ Len(trace) = 5
    /\ Stamps(5) = <<0, 10, 20, 105, 105>>
    /\ trace[4].before = <<0, 10>>

\* the log and the outcome a sequence of clock readings leads to, computed
\* from the readings, max_requests and window_seconds alone
RECURSIVE RefLog(_)
RefKept(prior, now) ==
    LET Young(e) == now - e <= window_seconds
    IN  SelectSeq(prior, Young)
RefLog(ts) ==
    IF ts = <<>> THEN <<>>
    ELSE LET kept == RefKept(RefLog(SubSeq(ts, 1, Len(ts) - 1)), ts[Len(ts)])
         IN  IF Len(kept) >= max_requests
             THEN kept
             ELSE Append(kept, ts[Len(ts)])
RefOutcome(ts) ==
    LET kept == RefKept(RefLog(SubSeq(ts, 1, Len(ts) - 1)), ts[Len(ts)])
    IN  IF Len(kept) >= max_requests THEN "REJECTED" ELSE "ADMITTED"

\* C19: the decisions and the log are a function of the arrival timestamps,
\* max_requests and window_seconds only: whatever the method, path and API key
\* of the requests so far, the latest decision and the log it leaves equal the
\* ones computed from the timestamps alone, so two runs with the same
\* timestamps agree at every call.
C19_GlobalLimit ==
    trace # <<>> =>
        /\ trace[Len(trace)].outcome = RefOutcome(Stamps(Len(trace)))
        /\ trace[Len(trace)].after = RefLog(Stamps(Len(trace)))
        /\ request_times = RefLog(Stamps(Len(trace)))

\* a request carrying the valid API key is turned away like any other, and
\* one without a key was admitted before it
C19_Witness ==
    /\ request.x_api_key = "good"
    /\ Len(trace) >= 3
    /\ trace[Len(trace)].outcome = "REJECTED"
    /\ Admissions # {}

\* endpoints declared with Depends(auth.verify_api_key)
GatedEndpoints == {"score_one", "score_all", "update_company_fields"}

\* the body of the chosen endpoint has started
BodyRan == h_pc = "body" \/ h_ops > 0 \/ h_status \in {200, 400}

C15_CronReachesScoreAll ==
    (/\ request.method = "POST"
     /\ request.path = <<"score", "cron">>
     /\ API_KEY # None
     /\ request.x_api_key = API_KEY
     /\ h_pc # "route")
        => (handler = "score_all" /\ company_id # "cron")

\* iterations of the run in which scoring and updating both succeeded
RECURSIVE SumTo(_, _)
SumTo(f, n) == IF n = 0 THEN 0 ELSE f[n] + SumTo(f, n - 1)
Successes == SumTo(rescored, NumCompanies)

\* C16: when the job returns and no scoring or update call failed, every
\* company of the data store has been scored and updated at least once.
C16_RescoresAllCompanies ==
    (job_pc = "done" /\ failures = 0) => \A c \in Companies : rescored[c] >= 1

\* C17: a failed iteration does not end the job: whenever the job is about to
\* fetch, has returned or has been ended by list_companies, every company of
\* every fetched page has been attempted; the job returns only on an empty
\* page, and the count it returns is the number of iterations in which both
\* calls succeeded.
C17_FailuresIsolated ==
    /\ job_pc \in {"list", "done", "raised"} => attempts = fetched
    /\ total_updated = attempts - failures
    /\ total_updated = Successes
    /\ job_pc = "done" =>
          /\ companies = <<>>
          /\ job_result = Successes
          /\ job_result = attempts - failures

\* the job returned after iterations that failed and iterations that
\* succeeded, every page having been worked through
C17_Witness ==
    /\ job_pc = "done"
    /\ failures >= 1
    /\ job_result >= 1
    /\ offset_val >= BatchSize
    /\ attempts >= NumCompanies

====
